---------------------------- MODULE Spec2Model ----------------------------
(***************************************************************************)
(* Model of the observability demo dashboard                               *)
(* (src/demos/1_obervability_streamlitVIEW.app.py): the support-level      *)
(* classifier, the mock telemetry generators and the session state that    *)
(* the Run Procedure / Reset Demo / Test UDF handlers drive.               *)
(*                                                                         *)
(* Python strings are TLA+ strings (TLC evaluates \o, Len and SubSeq on    *)
(* them), so a label such as "Moderate: Reading, Focus" is built and       *)
(* taken apart character by character as the code does.  None is the empty *)
(* sequence and a set value v is <<v>>.  Timestamps are integers in        *)
(* milliseconds.                                                           *)
(*                                                                         *)
(* The other three apps each have their own variables and specification:   *)
(* the student tracker (src/demos/2_streamlit_app.py) with its table and   *)
(* the sessions that work on it, under SpecTracker (one session) and       *)
(* SpecShared (all of them); the dynamic-tables app                        *)
(* (src/demos/3_dynamic_tables_app.py) under SpecDonations; the            *)
(* engagement dashboard's filterable table (src/demos/3_streamlit_app.py)  *)
(* under SpecEngagement.  ever_run is the one history variable.            *)
(***************************************************************************)
EXTENDS Integers, Sequences, FiniteSets, TLC

VARIABLES
    reading,             \* argument / "Reading Score" slider of the UDF tester
    math,                \* argument / "Math Score" slider
    focus,               \* argument / "Focus Score" slider
    udf_result,          \* None, or <<label>>: the result shown by the tester
    families_df,         \* the record sequence handed to the generators
    families_processed,  \* st.session_state.families_processed
    processing_time,     \* st.session_state.processing_time: None or <<ms>>
    display_df,          \* tab 1: families_df plus support_category, status
    logs_df,             \* tab 2: rows of generate_mock_logs, <<>> if not run
    traces_df,           \* tab 3: rows of generate_mock_traces
    spans_df,            \* tab 4: rows of generate_mock_spans
    metrics_df,          \* tab 5: rows of generate_mock_metrics
    tab_warning,         \* the tabs showing "Run the stored procedure first"
    table,               \* student tracker: the STUDENT_SUPPORT_TRACKER table,
                         \* None while it does not exist, else <<rows>>
    students,            \* per session: st.session_state.students, None or <<rows>>
    view,                \* per session: what its last script run rendered
    form_error,          \* per session: "Student ID and Name are required!" shown
    ever_run,            \* history, not kept by the code: a Run Procedure
                         \* has completed in the dashboard session
    donations,           \* dynamic-tables app: the DONATIONS table, None while
                         \* it does not exist, else <<rows>>
    donation_notice,     \* what the last script run of that app showed
    members_df,          \* engagement dashboard: the members as loaded
    table_type,          \* its "Filter by Type" selection
    table_region,        \* its "Filter by Region" selection
    table_limit,         \* its "Show Top" selection
    member_table         \* the rows its filterable table shows

\* the variables of the observability dashboard
obsVars == <<reading, math, focus, udf_result, families_df, families_processed,
             processing_time, display_df, logs_df, traces_df, spans_df,
             metrics_df, tab_warning, ever_run>>

\* the variables of the student tracker (src/demos/2_streamlit_app.py)
trackerVars == <<table, students, view, form_error>>

\* the variables of the dynamic-tables app (src/demos/3_dynamic_tables_app.py)
donationVars == <<donations, donation_notice>>

\* the variables of the engagement dashboard (src/demos/3_streamlit_app.py)
engagementVars == <<members_df, table_type, table_region, table_limit,
                    member_table>>

vars == <<obsVars, trackerVars, donationVars, engagementVars>>

None == <<>>

Some(v) == <<v>>

-----------------------------------------------------------------------------
(* Bounds of the model.                                                    *)

\* longest record sequence handed to the generators
MaxFamilies == 8

\* the values datetime.datetime.now() is drawn from (ms)
ClockSample == {0, 7}

\* what the Run Procedure loop takes beyond its sleeps (ms)
OverheadSample == {0, 2}

\* the random sources one generate_mock_metrics call may draw from
SeedSample == {0, 1}

-----------------------------------------------------------------------------
(* Python string operations.                                               *)

\* mutant of Join: the separator loses its blank (",".join(parts))
RECURSIVE JoinCommaOnly(_, _)
JoinCommaOnly(parts, sep) ==
    IF parts = <<>> THEN ""
    ELSE IF Len(parts) = 1 THEN parts[1]
    ELSE parts[1] \o "," \o JoinCommaOnly(Tail(parts), sep)

\* sep.join(parts)
RECURSIVE Join(_, _)
Join(parts, sep) ==
    IF parts = <<>> THEN ""
    ELSE IF Len(parts) = 1 THEN parts[1]
    ELSE parts[1] \o sep \o Join(Tail(parts), sep)

\* s.find(sep) + 1: the 1-based position of the first occurrence, 0 if none
Find(s, sep) ==
    LET hits == {i \in 1..(Len(s) - Len(sep) + 1) :
                    SubSeq(s, i, i + Len(sep) - 1) = sep}
    IN  IF hits = {} THEN 0
        ELSE CHOOSE i \in hits : \A j \in hits : i <= j

\* s.split(sep)
RECURSIVE Split(_, _)
Split(s, sep) ==
    LET i == Find(s, sep)
    IN  IF i = 0 THEN <<s>>
        ELSE <<SubSeq(s, 1, i - 1)>>
             \o Split(SubSeq(s, i + Len(sep), Len(s)), sep)

\* f"{n}" for an integer n
Str(n) == ToString(n)

-----------------------------------------------------------------------------
(* categorize_support_level                                                *)

\* mutant of SupportAreas: a score of exactly 70 counts as weak (<= 70)
SupportAreasInclusive(reading_score, math_score, focus_score) ==
    (IF reading_score <= 70 THEN <<"Reading">> ELSE <<>>)
    \o (IF math_score <= 70 THEN <<"Math">> ELSE <<>>)
    \o (IF focus_score <= 70 THEN <<"Focus">> ELSE <<>>)

\* mutant of SupportAreas: the weak areas are listed weakest score first
SupportAreasByScore(reading_score, math_score, focus_score) ==
    LET all == << <<reading_score, "Reading">>, <<math_score, "Math">>,
                  <<focus_score, "Focus">> >>
        weak == SelectSeq(all, LAMBDA p : p[1] < 70)
        n == Len(weak)
        order == CHOOSE p \in [1..n -> 1..n] :
                    /\ \A i, j \in 1..n : i # j => p[i] # p[j]
                    /\ \A i, j \in 1..n :
                          i < j => \/ weak[p[i]][1] < weak[p[j]][1]
                                   \/ /\ weak[p[i]][1] = weak[p[j]][1]
                                      /\ p[i] < p[j]
    IN  [i \in 1..n |-> weak[order[i]][2]]

\* the areas list: one append per score below 70, in the order of the ifs
SupportAreas(reading_score, math_score, focus_score) ==
    (IF reading_score < 70 THEN <<"Reading">> ELSE <<>>)
    \o (IF math_score < 70 THEN <<"Math">> ELSE <<>>)
    \o (IF focus_score < 70 THEN <<"Focus">> ELSE <<>>)

\* mutant of SupportLevel: an average of exactly 50 is Intensive (avg <= 50)
SupportLevelIntensiveAt50(reading_score, math_score, focus_score) ==
    LET total == reading_score + math_score + focus_score
    IN  IF total <= 3 * 50 THEN "Intensive"
        ELSE IF total < 3 * 70 THEN "Moderate"
        ELSE "Light Touch"

\* mutant of SupportLevel: an average of exactly 70 is Moderate (avg <= 70)
SupportLevelModerateAt70(reading_score, math_score, focus_score) ==
    LET total == reading_score + math_score + focus_score
    IN  IF total < 3 * 50 THEN "Intensive"
        ELSE IF total <= 3 * 70 THEN "Moderate"
        ELSE "Light Touch"

\* avg = (reading + math + focus) / 3 is a true division; avg is kept as the
\* exact fraction total/3, so avg < k is total < 3 * k
SupportLevel(reading_score, math_score, focus_score) ==
    LET total == reading_score + math_score + focus_score
    IN  IF total < 3 * 50 THEN "Intensive"
        ELSE IF total < 3 * 70 THEN "Moderate"
        ELSE "Light Touch"

\* mutant of categorize_support_level: the areas are joined even when there
\* are none, so the label ends after the colon
categorize_support_level_EmptyJoin(reading_score, math_score, focus_score) ==
    LET areas == SupportAreas(reading_score, math_score, focus_score)
        level == SupportLevel(reading_score, math_score, focus_score)
    IN  level \o ": " \o Join(areas, ", ")

\* mutant of categorize_support_level: scores outside 0..100 are rejected
categorize_support_level_Checked(reading_score, math_score, focus_score) ==
    LET areas == SupportAreas(reading_score, math_score, focus_score)
        level == SupportLevel(reading_score, math_score, focus_score)
    IN  IF \E s \in {reading_score, math_score, focus_score} : s \notin 0..100
        THEN "ValueError: score out of range"
        ELSE level \o ": "
             \o (IF areas # <<>> THEN Join(areas, ", ")
                 ELSE "General Support")

categorize_support_level(reading_score, math_score, focus_score) ==
    LET areas == SupportAreas(reading_score, math_score, focus_score)
        level == SupportLevel(reading_score, math_score, focus_score)
    IN  level \o ": "
        \o (IF areas # <<>> THEN Join(areas, ", ") ELSE "General Support")

-----------------------------------------------------------------------------
(* Record sequences.                                                       *)

Family(id, name, age, r, m, f) ==
    [family_id |-> id, family_name |-> name, child_age |-> age,
     reading_score |-> r, math_score |-> m, focus_score |-> f]

\* the frame the app builds on every script run (RangeIndex 0..4)
generate_mock_families ==
    << Family(1, "Johnson Family", 8, 65, 80, 55),
       Family(2, "Chen Family", 10, 45, 50, 60),
       Family(3, "Garcia Family", 7, 85, 90, 88),
       Family(4, "Wilson Family", 9, 40, 35, 45),
       Family(5, "Brown Family", 11, 70, 65, 72) >>

\* further rows for the generators' input: scores on the thresholds, averages
\* of exactly 70 and 50, and scores outside 0..100
ExtraFamilies ==
    << Family(6, "Davis Family", 9, 70, 70, 70),
       Family(7, "Lopez Family", 8, 50, 50, 50),
       Family(8, "Nguyen Family", 12, -10, 120, 40),
       Family(9, "Patel Family", 6, 100, 0, 69) >>

Roster == generate_mock_families \o ExtraFamilies

\* the positions of the roster a record sequence may start at
RosterStarts == {1, 4, 6}

\* the n rows of the roster from position k on, cyclically
RosterSlice(k, n) ==
    [i \in 1..n |-> Roster[((k + i - 2) % Len(Roster)) + 1]]

\* the generators' inputs: every slice of up to MaxFamilies rows, the empty
\* frame and the app's own five rows (RosterSlice(1, 5)) among them
FamilyInputs ==
    {RosterSlice(k, n) : k \in RosterStarts, n \in 0..MaxFamilies}

-----------------------------------------------------------------------------
(* generate_mock_logs                                                      *)

LogRow(t, logger, msg) ==
    [timestamp |-> t, logger_name |-> logger, log_level |-> "INFO",
     message |-> msg]

\* base_time = datetime.datetime.now() - datetime.timedelta(minutes=5)
BaseTime(now) == now - 5 * 60 * 1000

\* mutant of LogIteration: the categorization_started row is not appended
LogIterationNoStart(idx, row, base_time) ==
    LET t == base_time + (2 + idx * 2) * 1000
    IN  << LogRow(t + 500, "support_categorizer",
                  "{\"event\": \"categorization_complete\", \"result\": \""
                  \o categorize_support_level(row.reading_score,
                                              row.math_score, row.focus_score)
                  \o "\"}"),
           LogRow(t + 1000, "intake_processor",
                  "{\"event\": \"family_processed\", \"family_id\": "
                  \o Str(row.family_id) \o ", \"family_name\": \""
                  \o row.family_name \o "\"}") >>

\* mutant of LogIteration: records are one second apart (2 + idx)
LogIterationStep1(idx, row, base_time) ==
    LET t == base_time + (2 + idx) * 1000
    IN  << LogRow(t, "support_categorizer",
                  "{\"event\": \"categorization_started\", \"reading\": "
                  \o Str(row.reading_score) \o ", \"math\": "
                  \o Str(row.math_score) \o ", \"focus\": "
                  \o Str(row.focus_score) \o "}"),
           LogRow(t + 500, "support_categorizer",
                  "{\"event\": \"categorization_complete\", \"result\": \""
                  \o categorize_support_level(row.reading_score,
                                              row.math_score, row.focus_score)
                  \o "\"}"),
           LogRow(t + 1000, "intake_processor",
                  "{\"event\": \"family_processed\", \"family_id\": "
                  \o Str(row.family_id) \o ", \"family_name\": \""
                  \o row.family_name \o "\"}") >>

\* the three appends of one iteration of the loop over family_data.iterrows()
LogIteration(idx, row, base_time) ==
    LET t == base_time + (2 + idx * 2) * 1000
    IN  << LogRow(t, "support_categorizer",
                  "{\"event\": \"categorization_started\", \"reading\": "
                  \o Str(row.reading_score) \o ", \"math\": "
                  \o Str(row.math_score) \o ", \"focus\": "
                  \o Str(row.focus_score) \o "}"),
           LogRow(t + 500, "support_categorizer",
                  "{\"event\": \"categorization_complete\", \"result\": \""
                  \o categorize_support_level(row.reading_score,
                                              row.math_score, row.focus_score)
                  \o "\"}"),
           LogRow(t + 1000, "intake_processor",
                  "{\"event\": \"family_processed\", \"family_id\": "
                  \o Str(row.family_id) \o ", \"family_name\": \""
                  \o row.family_name \o "\"}") >>

\* the rows appended by the first n iterations (idx = 0 .. n-1)
RECURSIVE LogLoop(_, _, _)
LogLoop(family_data, base_time, n) ==
    IF n = 0 THEN <<>>
    ELSE LogLoop(family_data, base_time, n - 1)
         \o LogIteration(n - 1, family_data[n], base_time)

\* mutant of generate_mock_logs: records_found is logged only when there are
\* records
generate_mock_logs_FoundIfAny(family_data, now) ==
    LET base_time == BaseTime(now)
    IN  << LogRow(base_time, "intake_processor",
                  "{\"event\": \"batch_started\"}") >>
        \o (IF Len(family_data) > 0
            THEN << LogRow(base_time + 1000, "intake_processor",
                           "{\"event\": \"records_found\", \"count\": "
                           \o Str(Len(family_data)) \o "}") >>
            ELSE <<>>)
        \o LogLoop(family_data, base_time, Len(family_data))
        \o << LogRow(base_time + 15000, "intake_processor",
                     "{\"event\": \"batch_complete\", \"total\": "
                     \o Str(Len(family_data)) \o "}") >>

generate_mock_logs(family_data, now) ==
    LET base_time == BaseTime(now)
    IN  << LogRow(base_time, "intake_processor",
                  "{\"event\": \"batch_started\"}"),
           LogRow(base_time + 1000, "intake_processor",
                  "{\"event\": \"records_found\", \"count\": "
                  \o Str(Len(family_data)) \o "}") >>
        \o LogLoop(family_data, base_time, Len(family_data))
        \o << LogRow(base_time + 15000, "intake_processor",
                     "{\"event\": \"batch_complete\", \"total\": "
                     \o Str(Len(family_data)) \o "}") >>

-----------------------------------------------------------------------------
(* generate_mock_traces                                                    *)

TraceRow(t, name, details) ==
    [timestamp |-> t, event_name |-> name, event_details |-> details]

\* f"{avg:.1f}" for avg = total / 3: thirds round to .0, .3 and .7
FormatAvg(total) ==
    LET a == IF total < 0 THEN -total ELSE total
        tenth == IF a % 3 = 0 THEN "0" ELSE IF a % 3 = 1 THEN "3" ELSE "7"
    IN  (IF total < 0 THEN "-" ELSE "") \o Str(a \div 3) \o "." \o tenth

\* mutant of AreasCount: the generator's own count takes 70 as weak (<= 70)
AreasCountInclusive(row) ==
    Len(SelectSeq(<<row.reading_score, row.math_score, row.focus_score>>,
                  LAMBDA s : s <= 70))

\* sum([1 for s in [reading, math, focus] if s < 70])
AreasCount(row) ==
    Len(SelectSeq(<<row.reading_score, row.math_score, row.focus_score>>,
                  LAMBDA s : s < 70))

TraceIteration(idx, row, base_time) ==
    LET t == base_time + (2 + idx * 2) * 1000
        total == row.reading_score + row.math_score + row.focus_score
        category == categorize_support_level(row.reading_score,
                                             row.math_score, row.focus_score)
    IN  << TraceRow(t + 500, "categorization_complete",
                    "{\"level\": \"" \o Split(category, ":")[1]
                    \o "\", \"areas_count\": " \o Str(AreasCount(row))
                    \o ", \"avg_score\": " \o FormatAvg(total) \o "}"),
           TraceRow(t + 1000, "family_processed",
                    "{\"family_id\": " \o Str(row.family_id)
                    \o ", \"category\": \"" \o category \o "\"}") >>

RECURSIVE TraceLoop(_, _, _)
TraceLoop(family_data, base_time, n) ==
    IF n = 0 THEN <<>>
    ELSE TraceLoop(family_data, base_time, n - 1)
         \o TraceIteration(n - 1, family_data[n], base_time)

generate_mock_traces(family_data, now) ==
    LET base_time == BaseTime(now)
    IN  << TraceRow(base_time, "batch_processing_started", "{}") >>
        \o TraceLoop(family_data, base_time, Len(family_data))
        \o << TraceRow(base_time + 15000, "batch_processing_complete",
                       "{\"total_processed\": " \o Str(Len(family_data))
                       \o "}") >>

-----------------------------------------------------------------------------
(* generate_mock_spans                                                     *)

SpanRow(t, fn, attrs) ==
    [timestamp |-> t, function_name |-> fn, custom_attributes |-> attrs]

\* mutant of SpanIteration: the anchor is 2 * idx, without the 2 s lead
SpanIterationNoLead(idx, row, base_time) ==
    LET t == base_time + (idx * 2) * 1000
        result == categorize_support_level(row.reading_score,
                                           row.math_score, row.focus_score)
    IN  << SpanRow(t, "CATEGORIZE_SUPPORT_LEVEL",
                   "{\"input.reading_score\": " \o Str(row.reading_score)
                   \o ", \"input.math_score\": " \o Str(row.math_score)
                   \o ", \"input.focus_score\": " \o Str(row.focus_score)
                   \o ", \"output.result\": \"" \o result \o "\"}") >>

SpanIteration(idx, row, base_time) ==
    LET t == base_time + (2 + idx * 2) * 1000
        result == categorize_support_level(row.reading_score,
                                           row.math_score, row.focus_score)
    IN  << SpanRow(t, "CATEGORIZE_SUPPORT_LEVEL",
                   "{\"input.reading_score\": " \o Str(row.reading_score)
                   \o ", \"input.math_score\": " \o Str(row.math_score)
                   \o ", \"input.focus_score\": " \o Str(row.focus_score)
                   \o ", \"output.result\": \"" \o result \o "\"}") >>

RECURSIVE SpanLoop(_, _, _)
SpanLoop(family_data, base_time, n) ==
    IF n = 0 THEN <<>>
    ELSE SpanLoop(family_data, base_time, n - 1)
         \o SpanIteration(n - 1, family_data[n], base_time)

\* mutant of generate_mock_spans: the completed row is appended before the
\* loop
generate_mock_spans_CompleteFirst(family_data, now) ==
    LET base_time == BaseTime(now)
    IN  << SpanRow(base_time, "PROCESS_FAMILY_INTAKES",
                   "{\"batch.status\": \"started\", \"batch.record_count\": "
                   \o Str(Len(family_data)) \o "}"),
           SpanRow(base_time + 15000, "PROCESS_FAMILY_INTAKES",
                   "{\"batch.status\": \"completed\", \"batch.processed_count\": "
                   \o Str(Len(family_data)) \o "}") >>
        \o SpanLoop(family_data, base_time, Len(family_data))

generate_mock_spans(family_data, now) ==
    LET base_time == BaseTime(now)
    IN  << SpanRow(base_time, "PROCESS_FAMILY_INTAKES",
                   "{\"batch.status\": \"started\", \"batch.record_count\": "
                   \o Str(Len(family_data)) \o "}") >>
        \o SpanLoop(family_data, base_time, Len(family_data))
        \o << SpanRow(base_time + 15000, "PROCESS_FAMILY_INTAKES",
                      "{\"batch.status\": \"completed\", \"batch.processed_count\": "
                      \o Str(Len(family_data)) \o "}") >>

-----------------------------------------------------------------------------
(* generate_mock_metrics                                                   *)

MetricRow(t, fn, name, value) ==
    [timestamp |-> t, function_name |-> fn, metric_name |-> name,
     metric_value |-> value]

\* the k-th draw of the unseeded random source, a value in lo..hi; which
\* value comes out is not determined: a call picks one source, seed
Draw(seed, k, lo, hi) == lo + ((seed * 7919 + k * 104729) % (hi - lo + 1))

\* round(random.uniform(lo, hi), 3), in thousandths
UniformMilli(seed, k, lo, hi) == Draw(seed, k, lo, hi)

\* random.randint(lo, hi)
RandInt(seed, k, lo, hi) == Draw(seed, k, lo, hi)

\* mutant of CategorizeSamples: each sample time gets a random jitter of up
\* to 100 ms
RECURSIVE CategorizeSamplesJitter(_, _, _)
CategorizeSamplesJitter(base_time, seed, n) ==
    IF n = 0 THEN <<>>
    ELSE LET i == n - 1
             t == base_time + i * 1500 + Draw(seed, 40 + i, 0, 100)
         IN  CategorizeSamplesJitter(base_time, seed, n - 1)
             \o << MetricRow(t, "CATEGORIZE_SUPPORT_LEVEL",
                             "process.cpu.utilization",
                             UniformMilli(seed, 2 * i, 50, 250)),
                   MetricRow(t, "CATEGORIZE_SUPPORT_LEVEL",
                             "process.memory.usage",
                             RandInt(seed, 2 * i + 1, 40000000, 80000000)) >>

\* for i in range(10): one cpu row and one memory row at base_time + 1.5 i s
RECURSIVE CategorizeSamples(_, _, _)
CategorizeSamples(base_time, seed, n) ==
    IF n = 0 THEN <<>>
    ELSE LET i == n - 1
             t == base_time + i * 1500
         IN  CategorizeSamples(base_time, seed, n - 1)
             \o << MetricRow(t, "CATEGORIZE_SUPPORT_LEVEL",
                             "process.cpu.utilization",
                             UniformMilli(seed, 2 * i, 50, 250)),
                   MetricRow(t, "CATEGORIZE_SUPPORT_LEVEL",
                             "process.memory.usage",
                             RandInt(seed, 2 * i + 1, 40000000, 80000000)) >>

\* mutant of ProcessSamples: the samples are 1.5 s apart like the first loop's
RECURSIVE ProcessSamplesCadence15(_, _, _)
ProcessSamplesCadence15(base_time, seed, n) ==
    IF n = 0 THEN <<>>
    ELSE LET i == n - 1
             t == base_time + i * 1500
         IN  ProcessSamplesCadence15(base_time, seed, n - 1)
             \o << MetricRow(t, "PROCESS_FAMILY_INTAKES",
                             "process.cpu.utilization",
                             UniformMilli(seed, 20 + 2 * i, 100, 350)),
                   MetricRow(t, "PROCESS_FAMILY_INTAKES",
                             "process.memory.usage",
                             RandInt(seed, 21 + 2 * i, 60000000, 120000000)) >>

\* for i in range(5): one cpu row and one memory row at base_time + 3 i s
RECURSIVE ProcessSamples(_, _, _)
ProcessSamples(base_time, seed, n) ==
    IF n = 0 THEN <<>>
    ELSE LET i == n - 1
             t == base_time + i * 3000
         IN  ProcessSamples(base_time, seed, n - 1)
             \o << MetricRow(t, "PROCESS_FAMILY_INTAKES",
                             "process.cpu.utilization",
                             UniformMilli(seed, 20 + 2 * i, 100, 350)),
                   MetricRow(t, "PROCESS_FAMILY_INTAKES",
                             "process.memory.usage",
                             RandInt(seed, 21 + 2 * i, 60000000, 120000000)) >>

generate_mock_metrics(now, seed) ==
    LET base_time == BaseTime(now)
    IN  CategorizeSamples(base_time, seed, 10)
        \o ProcessSamples(base_time, seed, 5)

-----------------------------------------------------------------------------
(* One run of the script: what the five tabs show.                         *)

TelemetryTabs == {"Logs", "Traces", "Spans", "Metrics"}

\* tab 1: display_df, a copy of families_df with two more columns
DisplayRows(family_data, processed) ==
    [i \in 1..Len(family_data) |->
        [family |-> family_data[i],
         support_category |->
            IF processed
            THEN categorize_support_level(family_data[i].reading_score,
                                          family_data[i].math_score,
                                          family_data[i].focus_score)
            ELSE "Pending...",
         status |-> IF processed THEN "Processed" ELSE "Waiting"]]

\* mutant of RenderTabs: the Metrics tab generates without looking at
\* families_processed
RenderTabsMetricsAlways(processed, now, seed) ==
    /\ display_df' = DisplayRows(families_df, processed)
    /\ metrics_df' = generate_mock_metrics(now, seed)
    /\ IF processed
       THEN /\ logs_df' = generate_mock_logs(families_df, now)
            /\ traces_df' = generate_mock_traces(families_df, now)
            /\ spans_df' = generate_mock_spans(families_df, now)
            /\ tab_warning' = {}
       ELSE /\ logs_df' = <<>>
            /\ traces_df' = <<>>
            /\ spans_df' = <<>>
            /\ tab_warning' = TelemetryTabs \ {"Metrics"}

\* tabs 1 to 5 of a script run that finds families_processed = processed
RenderTabs(processed, now, seed) ==
    /\ display_df' = DisplayRows(families_df, processed)
    /\ IF processed
       THEN /\ logs_df' = generate_mock_logs(families_df, now)
            /\ traces_df' = generate_mock_traces(families_df, now)
            /\ spans_df' = generate_mock_spans(families_df, now)
            /\ metrics_df' = generate_mock_metrics(now, seed)
            /\ tab_warning' = {}
       ELSE /\ logs_df' = <<>>
            /\ traces_df' = <<>>
            /\ spans_df' = <<>>
            /\ metrics_df' = <<>>
            /\ tab_warning' = TelemetryTabs

-----------------------------------------------------------------------------
(* The handlers.                                                           *)

\* the browser sessions that have the student tracker open
Sessions == {"a", "b"}

\* the student tracker before any session has opened it: no table, no
\* session state
TrackerClosed ==
    /\ table = None
    /\ students = [s \in Sessions |-> None]
    /\ view = [s \in Sessions |-> "closed"]
    /\ form_error = [s \in Sessions |-> FALSE]

\* the dynamic-tables app before its first script run: no DONATIONS table
DonationsClosed ==
    /\ donations = None
    /\ donation_notice = ""

\* the engagement dashboard before its first script run: nothing loaded
EngagementClosed ==
    /\ members_df = <<>>
    /\ table_type = "All"
    /\ table_region = "All"
    /\ table_limit = 10
    /\ member_table = <<>>

\* the positions the three sliders of the tester are submitted at (each
\* ranges over 0..100; the first triple is the sliders' defaults)
SliderSample == {<<65, 75, 55>>, <<70, 70, 70>>, <<40, 35, 45>>, <<0, 100, 50>>}

\* mutant of RunProcedure: the button is offered whether or not a run has
\* completed
RunProcedureAlways ==
    /\ \E overhead \in OverheadSample, now \in ClockSample, seed \in SeedSample :
          /\ processing_time' = Some(300 * Len(families_df) + overhead)
          /\ families_processed' = TRUE
          /\ RenderTabs(TRUE, now, seed)
    /\ udf_result' = None
    /\ UNCHANGED <<reading, math, focus, families_df>>
    /\ UNCHANGED <<trackerVars, donationVars, engagementVars>>
    /\ ever_run' = TRUE

\* "Run Procedure": offered only while families_processed is False; the loop
\* sleeps 0.3 s per family, then both session values are set and the script
\* reruns
RunProcedure ==
    /\ ~families_processed
    /\ \E overhead \in OverheadSample, now \in ClockSample, seed \in SeedSample :
          /\ processing_time' = Some(300 * Len(families_df) + overhead)
          /\ families_processed' = TRUE
          /\ RenderTabs(TRUE, now, seed)
    /\ udf_result' = None
    /\ UNCHANGED <<reading, math, focus, families_df>>
    /\ UNCHANGED <<trackerVars, donationVars, engagementVars>>
    /\ ever_run' = TRUE

\* mutant of ResetDemo: the recorded processing time is kept
ResetDemoKeepsTime ==
    /\ families_processed' = FALSE
    /\ UNCHANGED processing_time
    /\ \E now \in ClockSample, seed \in SeedSample : RenderTabs(FALSE, now, seed)
    /\ udf_result' = None
    /\ UNCHANGED <<reading, math, focus, families_df>>
    /\ UNCHANGED <<trackerVars, donationVars, engagementVars>>
    /\ UNCHANGED ever_run

\* "Reset Demo": both session values are cleared and the script reruns
ResetDemo ==
    /\ families_processed' = FALSE
    /\ processing_time' = None
    /\ \E now \in ClockSample, seed \in SeedSample : RenderTabs(FALSE, now, seed)
    /\ udf_result' = None
    /\ UNCHANGED <<reading, math, focus, families_df>>
    /\ UNCHANGED <<trackerVars, donationVars, engagementVars>>
    /\ UNCHANGED ever_run

\* mutant of TestUDF: the tester stores a timing under processing_time
TestUDFStoresTime ==
    /\ \E s \in SliderSample :
          /\ reading' = s[1]
          /\ math' = s[2]
          /\ focus' = s[3]
          /\ udf_result' = Some(categorize_support_level(s[1], s[2], s[3]))
    /\ \E now \in ClockSample, seed \in SeedSample :
          RenderTabs(families_processed, now, seed)
    /\ processing_time' = Some(0)
    /\ UNCHANGED <<families_df, families_processed>>
    /\ UNCHANGED <<trackerVars, donationVars, engagementVars>>
    /\ UNCHANGED ever_run

\* "Test UDF": the form is submitted with the sliders at r, m, f; the script
\* runs once more and shows the result under the form
TestUDF ==
    /\ \E s \in SliderSample :
          /\ reading' = s[1]
          /\ math' = s[2]
          /\ focus' = s[3]
          /\ udf_result' = Some(categorize_support_level(s[1], s[2], s[3]))
    /\ \E now \in ClockSample, seed \in SeedSample :
          RenderTabs(families_processed, now, seed)
    /\ UNCHANGED <<families_df, families_processed, processing_time>>
    /\ UNCHANGED <<trackerVars, donationVars, engagementVars>>
    /\ UNCHANGED ever_run

\* the state after the first script run of a session
Init ==
    /\ reading = 65
    /\ math = 75
    /\ focus = 55
    /\ udf_result = None
    /\ families_df \in FamilyInputs
    /\ families_processed = FALSE
    /\ processing_time = None
    /\ display_df = DisplayRows(families_df, FALSE)
    /\ logs_df = <<>>
    /\ traces_df = <<>>
    /\ spans_df = <<>>
    /\ metrics_df = <<>>
    /\ tab_warning = TelemetryTabs
    /\ TrackerClosed
    /\ ever_run = FALSE
    /\ DonationsClosed
    /\ EngagementClosed

Next ==
    \/ RunProcedure
    \/ ResetDemo
    \/ TestUDF

Spec == Init /\ [][Next]_vars

-----------------------------------------------------------------------------
(* The classifier on its own: a call with any three integer scores.        *)

\* the scores a call is made with: the thresholds and their neighbours, the
\* ends of the slider range, and values outside 0..100
Scores == {-10, 0, 35, 40, 45, 50, 55, 65, 69, 70, 71, 75, 100, 120}

InitClassify ==
    /\ reading \in Scores
    /\ math \in Scores
    /\ focus \in Scores
    /\ udf_result = None
    /\ families_df = generate_mock_families
    /\ families_processed = FALSE
    /\ processing_time = None
    /\ display_df = DisplayRows(families_df, FALSE)
    /\ logs_df = <<>>
    /\ traces_df = <<>>
    /\ spans_df = <<>>
    /\ metrics_df = <<>>
    /\ tab_warning = TelemetryTabs
    /\ TrackerClosed
    /\ ever_run = FALSE
    /\ DonationsClosed
    /\ EngagementClosed

\* result = categorize_support_level(reading, math, focus)
CallClassifier ==
    /\ udf_result = None
    /\ udf_result' = Some(categorize_support_level(reading, math, focus))
    /\ UNCHANGED <<reading, math, focus, families_df, families_processed,
                   processing_time, display_df, logs_df, traces_df, spans_df,
                   metrics_df, tab_warning>>
    /\ UNCHANGED <<trackerVars, donationVars, engagementVars>>
    /\ UNCHANGED ever_run

NextClassify == CallClassifier

SpecClassify == InitClassify /\ [][NextClassify]_vars

-----------------------------------------------------------------------------
(* The student tracker: one table in the database, and sessions that each  *)
(* keep their own copy of its rows in st.session_state.students.  A script *)
(* run, with the handler it executes and the rerun that handler asks for,  *)
(* is one step.                                                            *)

\* the most rows the table is let grow to
MaxRows == 4

\* the days a script run can fall on (datetime.now().date())
DaySample == {1}

\* one row of STUDENT_SUPPORT_TRACKER
Student(id, name, support, status, notes, day) ==
    [STUDENT_ID |-> id, NAME |-> name, SUPPORT_TYPE |-> support,
     STATUS |-> status, NOTES |-> notes, LAST_UPDATED |-> day]

\* the first entry of the selectbox
NewStudent == "-- New Student --"

\* what is typed or chosen in the form: the two required fields empty or
\* filled, an ID the seed rows have and one they have not
IdSample == {"", "S001", "S004"}

NameSample == {"", "Taylor Smith"}

SupportSample == {"Writing Support"}

StatusSample == {"On Hold"}

NotesSample == {""}

\* table_exists()
table_exists(tbl) == tbl # None

\* the seed rows create_table() writes
seed_df(day) ==
    << Student("S001", "Alex Johnson", "Reading Support", "In Progress",
               "Working on phonics", day),
       Student("S002", "Sam Rivera", "Focus Strategies", "Completed",
               "Using timer techniques", day),
       Student("S003", "Jordan Lee", "Math Support", "In Progress",
               "Visual aids helpful", day) >>

\* create_table(): the table as write_pandas(..., overwrite=True) leaves it
create_table(day) == Some(seed_df(day))

\* load_data(): the rows of the table
load_data(tbl) == tbl[1]

\* save_data(df): the table as write_pandas(df, overwrite=True) leaves it
save_data(df) == Some(df)

\* the STUDENT_ID column of a frame
StudentIds(df) == {df[i].STUDENT_ID : i \in 1..Len(df)}

\* df[df["STUDENT_ID"] != selected]
RECURSIVE DropStudent(_, _)
DropStudent(df, selected) ==
    IF df = <<>> THEN <<>>
    ELSE IF Head(df).STUDENT_ID # selected
         THEN <<Head(df)>> \o DropStudent(Tail(df), selected)
         ELSE DropStudent(Tail(df), selected)

\* mutant of MissingRequired: only the Student ID is required
MissingRequiredIdOnly(new_id, new_name) == new_id = ""

\* not new_id or not new_name
MissingRequired(new_id, new_name) == new_id = "" \/ new_name = ""

\* mutant of updated_df: an edit keeps the rows of the selected student
updated_df_KeepSelected(session_students, selected, new_row) ==
    session_students \o <<new_row>>

\* updated_df of a save that passed the validation
updated_df(session_students, selected, new_row) ==
    IF selected = NewStudent
    THEN session_students \o <<new_row>>
    ELSE DropStudent(session_students, selected) \o <<new_row>>

\* the part of a script run every run executes: the table is looked up, and
\* if it exists the session loads the rows unless it holds a list already
\* (needs_reload is never set to True).  The result is the session's list
\* and what the page shows.
ScriptRun(tbl, session_students) ==
    IF ~table_exists(tbl)
    THEN [students |-> session_students, view |-> "no_table"]
    ELSE [students |-> IF session_students = None
                       THEN Some(load_data(tbl))
                       ELSE session_students,
          view |-> "table"]

\* a session opens the app: its first script run
OpenSession(s) ==
    /\ view[s] = "closed"
    /\ LET run == ScriptRun(table, students[s])
       IN  /\ students' = [students EXCEPT ![s] = run.students]
           /\ view' = [view EXCEPT ![s] = run.view]
    /\ form_error' = [form_error EXCEPT ![s] = FALSE]
    /\ UNCHANGED table
    /\ UNCHANGED <<obsVars, donationVars, engagementVars>>

\* "Create Table", clicked on a page that offers it: the button is there
\* again only if the table is still missing when the script runs on the
\* click; the seed rows are written and the script reruns
CreateTable(s) ==
    /\ view[s] = "no_table"
    /\ \E day \in DaySample :
          LET tbl == IF table_exists(table) THEN table ELSE create_table(day)
              run == ScriptRun(tbl, students[s])
          IN  /\ table' = tbl
              /\ students' = [students EXCEPT ![s] = run.students]
              /\ view' = [view EXCEPT ![s] = run.view]
    /\ form_error' = [form_error EXCEPT ![s] = FALSE]
    /\ UNCHANGED <<obsVars, donationVars, engagementVars>>

\* the entries of the selectbox a session is offered
student_ids(session_students) ==
    {NewStudent} \cup StudentIds(session_students[1])

\* what is submitted: the selectbox entry, the five fields, and the day
FormInputs(session_students) ==
    [selected : student_ids(session_students), new_id : IdSample,
     new_name : NameSample, new_support : SupportSample,
     new_status : StatusSample, new_notes : NotesSample, day : DaySample]

\* the submit handler, run by a session that holds session_students while
\* the table is tbl: the table and the session's list it leaves, and whether
\* it shows the error.  Without a Student ID or a Name only the error is
\* shown; else the session's list, changed, overwrites the table and is
\* loaded back.
Submitted(tbl, session_students, in) ==
    IF MissingRequired(in.new_id, in.new_name)
    THEN [table |-> tbl, students |-> session_students, error |-> TRUE]
    ELSE LET new_row == Student(in.new_id, in.new_name, in.new_support,
                                in.new_status, in.new_notes, in.day)
             df == updated_df(session_students[1], in.selected, new_row)
         IN  [table |-> save_data(df),
              students |-> Some(load_data(save_data(df))),
              error |-> FALSE]

\* "Save to Snowflake": the form is submitted; after a save the script
\* reruns
SubmitForm(s) ==
    /\ view[s] = "table"
    /\ \E in \in FormInputs(students[s]) :
          LET out == Submitted(table, students[s], in)
              run == IF out.error
                     THEN [students |-> out.students, view |-> view[s]]
                     ELSE ScriptRun(out.table, out.students)
          IN  /\ Len(load_data(out.table)) <= MaxRows
              /\ table' = out.table
              /\ students' = [students EXCEPT ![s] = run.students]
              /\ view' = [view EXCEPT ![s] = run.view]
              /\ form_error' = [form_error EXCEPT ![s] = out.error]
    /\ UNCHANGED <<obsVars, donationVars, engagementVars>>

\* the tracker before any session has opened it; the dashboard is left as
\* its first script run shows it
InitTracker ==
    /\ reading = 65
    /\ math = 75
    /\ focus = 55
    /\ udf_result = None
    /\ families_df = generate_mock_families
    /\ families_processed = FALSE
    /\ processing_time = None
    /\ display_df = DisplayRows(families_df, FALSE)
    /\ logs_df = <<>>
    /\ traces_df = <<>>
    /\ spans_df = <<>>
    /\ metrics_df = <<>>
    /\ tab_warning = TelemetryTabs
    /\ TrackerClosed
    /\ ever_run = FALSE
    /\ DonationsClosed
    /\ EngagementClosed

\* the session of a user who works on the table alone
Alone == {"a"}

NextTracker ==
    \E s \in Alone :
        \/ OpenSession(s)
        \/ CreateTable(s)
        \/ SubmitForm(s)

\* one session working on the table
SpecTracker == InitTracker /\ [][NextTracker]_vars

NextShared ==
    \E s \in Sessions :
        \/ OpenSession(s)
        \/ CreateTable(s)
        \/ SubmitForm(s)

\* the sessions working on the same table, their script runs interleaved
SpecShared == InitTracker /\ [][NextShared]_vars

-----------------------------------------------------------------------------
(* The dynamic-tables app: the DONATIONS table and the form that inserts   *)
(* into it with an SQL statement built from the form's fields.  The        *)
(* statement is built as text and read back as the database reads it, a    *)
(* string constant ending at the first quote that is not escaped.          *)
(* DONATION_SUMMARY is computed by the database from DONATIONS and only    *)
(* read by the app; it is not part of the state here.                      *)

\* the most rows DONATIONS is let grow to
MaxDonations == 6

\* one row of DONATIONS; amounts are in cents, as NUMBER(10,2) keeps them
Donation(name, amount, day) ==
    [DONOR_NAME |-> name, AMOUNT |-> amount, DONATION_DATE |-> day]

\* the rows create_setup() writes
seed_data(day) ==
    << Donation("Alice Smith", 10000, day),
       Donation("Bob Jones", 25000, day),
       Donation("Carol White", 5000, day) >>

\* create_setup(): DONATIONS as it leaves it
create_setup(day) == Some(seed_data(day))

\* what is typed as the donor name: nothing, a blank, a plain name, a name
\* with an apostrophe, and a text that closes the string constant itself
DonorNameSample ==
    {"", " ", "David Lee", "O'Brien", "x', 5.0, CURRENT_DATE()), ('y"}

\* the amounts entered, in cents: the least the input takes, its default,
\* and one with cents
AmountSample == {100, 10000, 1250}

\* f"{amount}" for a float with at most two decimals, given in cents
FormatAmount(cents) ==
    LET whole == cents \div 100
        frac == cents % 100
    IN  IF frac % 10 = 0 THEN Str(whole) \o "." \o Str(frac \div 10)
        ELSE IF frac < 10 THEN Str(whole) \o ".0" \o Str(frac)
        ELSE Str(whole) \o "." \o Str(frac)

InsertPrefix == "INSERT INTO UNDERSTOOD_DEMO.DYNAMIC_TABLES.DONATIONS VALUES "

\* the statement add_donation() sends, its line breaks and indentation
\* written as single blanks
InsertStatement(name, amount) ==
    InsertPrefix \o "('" \o name \o "', " \o FormatAmount(amount)
        \o ", CURRENT_DATE())"

\* text p stands in s at position i
StartsAt(s, i, p) ==
    /\ i + Len(p) - 1 <= Len(s)
    /\ SubSeq(s, i, i + Len(p) - 1) = p

\* a string constant read from position i, just after its opening quote: two
\* quotes stand for one, a backslash takes the next character as it is, and
\* the first other quote ends the constant
RECURSIVE ReadString(_, _, _)
ReadString(s, i, acc) ==
    IF i > Len(s) THEN [ok |-> FALSE, value |-> acc, next |-> i]
    ELSE IF StartsAt(s, i, "''") THEN ReadString(s, i + 2, acc \o "'")
    ELSE IF StartsAt(s, i, "'") THEN [ok |-> TRUE, value |-> acc, next |-> i + 1]
    ELSE IF StartsAt(s, i, "\\")
         THEN IF i + 1 > Len(s)
              THEN [ok |-> FALSE, value |-> acc, next |-> i]
              ELSE ReadString(s, i + 2, acc \o SubSeq(s, i + 1, i + 1))
    ELSE ReadString(s, i + 1, acc \o SubSeq(s, i, i))

Digits == {"0", "1", "2", "3", "4", "5", "6", "7", "8", "9"}

DigitValue(c) == CHOOSE d \in 0..9 : ToString(d) = c

\* the digits standing in s from position i on
RECURSIVE ReadDigits(_, _, _)
ReadDigits(s, i, acc) ==
    IF i <= Len(s) /\ SubSeq(s, i, i) \in Digits
    THEN ReadDigits(s, i + 1, acc \o SubSeq(s, i, i))
    ELSE [value |-> acc, next |-> i]

\* the number a string of digits writes
RECURSIVE DigitsValue(_)
DigitsValue(ds) ==
    IF ds = "" THEN 0
    ELSE 10 * DigitsValue(SubSeq(ds, 1, Len(ds) - 1))
         + DigitValue(SubSeq(ds, Len(ds), Len(ds)))

\* a number with a decimal point read from position i, as NUMBER(10,2)
\* stores it: in cents, rounded on the third decimal
ReadAmount(s, i) ==
    LET whole == ReadDigits(s, i, "")
        frac == IF StartsAt(s, whole.next, ".")
                THEN ReadDigits(s, whole.next + 1, "")
                ELSE [value |-> "", next |-> whole.next]
        padded == frac.value \o "000"
        cents == DigitsValue(SubSeq(padded, 1, 2))
                 + (IF DigitValue(SubSeq(padded, 3, 3)) >= 5 THEN 1 ELSE 0)
    IN  [ok |-> whole.value # "",
         value |-> 100 * DigitsValue(whole.value) + cents,
         next |-> frac.next]

\* the rows a VALUES list standing in s from position i on inserts: rows of a
\* string constant, a number and CURRENT_DATE(), separated as the app writes
\* them; None if the text is not such a list
RECURSIVE ReadRows(_, _, _, _)
ReadRows(s, i, day, acc) ==
    IF ~StartsAt(s, i, "('") THEN None
    ELSE LET name == ReadString(s, i + 2, "")
         IN  IF ~name.ok \/ ~StartsAt(s, name.next, ", ") THEN None
             ELSE LET amount == ReadAmount(s, name.next + 2)
                      rows == acc \o <<Donation(name.value, amount.value, day)>>
                      end == amount.next + Len(", CURRENT_DATE())")
                  IN  IF ~amount.ok
                         \/ ~StartsAt(s, amount.next, ", CURRENT_DATE())")
                      THEN None
                      ELSE IF end > Len(s) THEN Some(rows)
                      ELSE IF StartsAt(s, end, ", ")
                      THEN ReadRows(s, end + 2, day, rows)
                      ELSE None

\* session.sql(statement).collect() on DONATIONS holding rows: the table it
\* leaves, None if the statement does not compile
RunInsert(statement, rows, day) ==
    LET new == IF StartsAt(statement, 1, InsertPrefix)
               THEN ReadRows(statement, Len(InsertPrefix) + 1, day, <<>>)
               ELSE None
    IN  IF new = None THEN None ELSE Some(rows \o new[1])

\* add_donation(name, amount), run on the day CURRENT_DATE() gives
add_donation(rows, name, amount, day) ==
    RunInsert(InsertStatement(name, amount), rows, day)

\* the submit handler of donation_form on DONATIONS as tbl: the table it
\* leaves and what the page shows afterwards.  With a name the statement is
\* sent; if it raises, the script run ends with the exception shown, else
\* the script reruns and the success message is gone.
donation_form(tbl, donor_name, amount, day) ==
    IF donor_name # ""
    THEN LET new == add_donation(load_data(tbl), donor_name, amount, day)
         IN  IF new = None
             THEN [table |-> tbl, notice |-> "SnowparkSQLException"]
             ELSE [table |-> new, notice |-> ""]
    ELSE [table |-> tbl, notice |-> "Please enter a donor name"]

\* "Create Demo Tables", offered while DONATIONS is missing
CreateDemoTables ==
    /\ donations = None
    /\ \E day \in DaySample : donations' = create_setup(day)
    /\ donation_notice' = ""
    /\ UNCHANGED <<obsVars, trackerVars, engagementVars>>

\* "Add Donation": the form is submitted
AddDonation ==
    /\ donations # None
    /\ \E donor_name \in DonorNameSample, amount \in AmountSample,
          day \in DaySample :
          LET out == donation_form(donations, donor_name, amount, day)
          IN  /\ Len(load_data(out.table)) <= MaxDonations
              /\ donations' = out.table
              /\ donation_notice' = out.notice
    /\ UNCHANGED <<obsVars, trackerVars, engagementVars>>

\* "Refresh to see updated summary": the script reruns
RefreshSummary ==
    /\ donations # None
    /\ donation_notice' = ""
    /\ UNCHANGED donations
    /\ UNCHANGED <<obsVars, trackerVars, engagementVars>>

\* the observability dashboard as its first script run shows it
DashboardUnused ==
    /\ reading = 65
    /\ math = 75
    /\ focus = 55
    /\ udf_result = None
    /\ families_df = generate_mock_families
    /\ families_processed = FALSE
    /\ processing_time = None
    /\ display_df = DisplayRows(families_df, FALSE)
    /\ logs_df = <<>>
    /\ traces_df = <<>>
    /\ spans_df = <<>>
    /\ metrics_df = <<>>
    /\ tab_warning = TelemetryTabs
    /\ ever_run = FALSE

InitDonations ==
    /\ DashboardUnused
    /\ TrackerClosed
    /\ DonationsClosed
    /\ EngagementClosed

NextDonations ==
    \/ CreateDemoTables
    \/ AddDonation
    \/ RefreshSummary

SpecDonations == InitDonations /\ [][NextDonations]_vars

-----------------------------------------------------------------------------
(* The engagement dashboard's filterable table: the members as             *)
(* load_all_members returns them, most engaged first, the three selections *)
(* and the rows shown.                                                     *)

\* the most members a load returns
MaxMembers == 12

\* one row of load_all_members, with the columns the table uses
Member(name, type, region, sessions, seconds, topic) ==
    [MEMBER_NAME |-> name, MEMBER_TYPE |-> type, REGION |-> region,
     TOTAL_SESSIONS |-> sessions, ENGAGEMENT_MINUTES |-> seconds \div 60,
     FAVORITE_TOPIC |-> topic]

\* the i-th most engaged member of two populations: in "mixed" the types
\* and regions go round, in "skewed" nearly all members are parents in the
\* West
MemberAt(population, i) ==
    LET type == IF population = "mixed"
                THEN <<"Educator", "Parent", "Professional">>[(i % 3) + 1]
                ELSE IF i % 8 = 5 THEN "Educator" ELSE "Parent"
        region == IF population = "mixed"
                  THEN <<"Northeast", "West">>[(i % 2) + 1]
                  ELSE IF i % 8 = 3 THEN "Midwest" ELSE "West"
    IN  Member("Member " \o Str(i), type, region, 40 - i, 60000 - 600 * i,
               "Topic " \o Str(i % 4))

\* ... ORDER BY lifetime_engagement_seconds DESC: the first n members
MembersLoaded(population, n) == [i \in 1..n |-> MemberAt(population, i)]

\* the member sets a session can find loaded
MemberFrames ==
    {MembersLoaded(population, n) :
        population \in {"mixed", "skewed"}, n \in 0..MaxMembers}

\* the entries of "Show Top"
LimitOptions == {10, 25, 50, 100}

\* ['All'] + sorted(df['MEMBER_TYPE'].unique().tolist()), as a set
TypeOptions(df) == {"All"} \cup {df[i].MEMBER_TYPE : i \in 1..Len(df)}

\* ['All'] + sorted(df['REGION'].unique().tolist()), as a set
RegionOptions(df) == {"All"} \cup {df[i].REGION : i \in 1..Len(df)}

\* df[df['MEMBER_TYPE'] == selected_type]
RECURSIVE FilterType(_, _)
FilterType(df, selected_type) ==
    IF df = <<>> THEN <<>>
    ELSE IF Head(df).MEMBER_TYPE = selected_type
         THEN <<Head(df)>> \o FilterType(Tail(df), selected_type)
         ELSE FilterType(Tail(df), selected_type)

\* df[df['REGION'] == selected_region]
RECURSIVE FilterRegion(_, _)
FilterRegion(df, selected_region) ==
    IF df = <<>> THEN <<>>
    ELSE IF Head(df).REGION = selected_region
         THEN <<Head(df)>> \o FilterRegion(Tail(df), selected_region)
         ELSE FilterRegion(Tail(df), selected_region)

\* mutant of head: one row more than asked for
head_OneMore(df, n) ==
    IF Len(df) <= n + 1 THEN df ELSE SubSeq(df, 1, n + 1)

\* df.head(n)
head(df, n) ==
    IF Len(df) <= n THEN df ELSE SubSeq(df, 1, n)

\* a row of display_df: the six columns under their display names
DisplayMember(row) ==
    [Name |-> row.MEMBER_NAME, Type |-> row.MEMBER_TYPE,
     Region |-> row.REGION, Sessions |-> row.TOTAL_SESSIONS,
     Engagement |-> row.ENGAGEMENT_MINUTES,
     FavoriteTopic |-> row.FAVORITE_TOPIC]

\* the rows render_filterable_table shows
render_filterable_table(df, selected_type, selected_region, top_n) ==
    LET by_type == IF selected_type # "All"
                   THEN FilterType(df, selected_type) ELSE df
        by_region == IF selected_region # "All"
                     THEN FilterRegion(by_type, selected_region) ELSE by_type
        filtered_df == head(by_region, top_n)
    IN  [k \in 1..Len(filtered_df) |-> DisplayMember(filtered_df[k])]

\* a selection is made in "Filter by Type" and the script reruns
SelectType ==
    /\ \E selected \in TypeOptions(members_df) :
          /\ table_type' = selected
          /\ member_table' = render_filterable_table(members_df, selected,
                                                     table_region, table_limit)
    /\ UNCHANGED <<members_df, table_region, table_limit>>
    /\ UNCHANGED <<obsVars, trackerVars, donationVars>>

\* a selection is made in "Filter by Region" and the script reruns
SelectRegion ==
    /\ \E selected \in RegionOptions(members_df) :
          /\ table_region' = selected
          /\ member_table' = render_filterable_table(members_df, table_type,
                                                     selected, table_limit)
    /\ UNCHANGED <<members_df, table_type, table_limit>>
    /\ UNCHANGED <<obsVars, trackerVars, donationVars>>

\* a selection is made in "Show Top" and the script reruns
SelectLimit ==
    /\ \E selected \in LimitOptions :
          /\ table_limit' = selected
          /\ member_table' = render_filterable_table(members_df, table_type,
                                                     table_region, selected)
    /\ UNCHANGED <<members_df, table_type, table_region>>
    /\ UNCHANGED <<obsVars, trackerVars, donationVars>>

\* the dashboard after its first script run: each selectbox at its first
\* entry
InitEngagement ==
    /\ DashboardUnused
    /\ TrackerClosed
    /\ DonationsClosed
    /\ members_df \in MemberFrames
    /\ table_type = "All"
    /\ table_region = "All"
    /\ table_limit = 10
    /\ member_table = render_filterable_table(members_df, "All", "All", 10)

NextEngagement ==
    \/ SelectType
    \/ SelectRegion
    \/ SelectLimit

SpecEngagement == InitEngagement /\ [][NextEngagement]_vars

-----------------------------------------------------------------------------
(* Reading a label and an event back.                                      *)

Tiers == {"Intensive", "Moderate", "Light Touch"}

AreaOrder == <<"Reading", "Math", "Focus">>

\* the label shown by the tester
Label == udf_result[1]

\* the part of a label before its first ": "
LabelTier(label) == SubSeq(label, 1, Find(label, ": ") - 1)

\* the part of a label after its first ": "
LabelRest(label) == SubSeq(label, Find(label, ": ") + 2, Len(label))

\* the weak areas a label lists
LabelAreas(label) ==
    IF LabelRest(label) = "General Support" THEN <<>>
    ELSE Split(LabelRest(label), ", ")

\* the score the call was made with for an area
ScoreOf(area) ==
    CASE area = "Reading" -> reading
      [] area = "Math" -> math
      [] area = "Focus" -> focus

\* the whole part of the average of the three scores of the call
AvgFloor == (reading + math + focus) \div 3

\* the tier the thresholds 50 and 70 give for an average with whole part a
TierOfAverage(a) ==
    IF a < 50 THEN "Intensive" ELSE IF a < 70 THEN "Moderate" ELSE "Light Touch"

Range(seq) == {seq[i] : i \in 1..Len(seq)}

\* the value of the "event" key of a log message
EventOf(message) ==
    LET key == "{\"event\": \""
        rest == SubSeq(message, Len(key) + 1, Len(message))
    IN  IF SubSeq(message, 1, Len(key)) = key
        THEN SubSeq(rest, 1, Find(rest, "\"") - 1)
        ELSE ""

Contains(s, part) == Find(s, part) > 0

-----------------------------------------------------------------------------
(* Claims about categorize_support_level, under SpecClassify.              *)

\* C1: the tier of every call is decided by the average of the three scores
\* alone: Intensive below 50, otherwise Moderate below 70, otherwise Light
\* Touch.
C1_TierByAverage ==
    udf_result # None => LabelTier(Label) = TierOfAverage(AvgFloor)

\* a call with total 149 (average 49.67) has returned Intensive
C1_Witness ==
    /\ udf_result # None
    /\ reading + math + focus = 149
    /\ LabelTier(Label) = "Intensive"

\* C2: an area is listed iff its own score is below 70, and the listed areas
\* are a subsequence of (Reading, Math, Focus).
C2_WeakAreas ==
    udf_result # None =>
        LET areas == LabelAreas(Label)
        IN  /\ \A a \in Range(AreaOrder) : a \in Range(areas) <=> ScoreOf(a) < 70
            /\ areas = SelectSeq(AreaOrder, LAMBDA a : a \in Range(areas))

\* a call whose Focus score is weaker than its weak Reading score still lists
\* Reading first
C2_Witness ==
    /\ udf_result # None
    /\ focus < reading
    /\ reading < 70
    /\ math >= 70
    /\ LabelAreas(Label) = <<"Reading", "Focus">>

\* C3 as stated: an average of exactly 50 and an average of exactly 70 both
\* give Moderate.
C3_Original ==
    (udf_result # None /\ reading + math + focus \in {150, 210})
        => LabelTier(Label) = "Moderate"

\* C3, amended: an average of exactly 50 gives Moderate and an average of
\* exactly 70 gives Light Touch.
C3_Boundaries ==
    /\ (udf_result # None /\ reading + math + focus = 150)
          => LabelTier(Label) = "Moderate"
    /\ (udf_result # None /\ reading + math + focus = 210)
          => LabelTier(Label) = "Light Touch"

\* a call with unequal scores of average exactly 70 has returned
C3_Witness ==
    /\ udf_result # None
    /\ reading + math + focus = 210
    /\ reading # math

\* C4: the result is "<tier>: <weak areas joined by ', '>", with the literal
\* "General Support" after the colon when no area is weak, so (70, 70, 70)
\* gives "Light Touch: General Support".
C4_LabelFormat ==
    udf_result # None =>
        LET weak == SelectSeq(AreaOrder, LAMBDA a : ScoreOf(a) < 70)
        IN  /\ Find(Label, ": ") > 0
            /\ LabelTier(Label) \in Tiers
            /\ LabelRest(Label) # ""
            /\ weak = <<>> => LabelRest(Label) = "General Support"
            /\ weak # <<>> => LabelRest(Label) = Join(weak, ", ")
            /\ (reading = 70 /\ math = 70 /\ focus = 70)
                  => Label = "Light Touch: General Support"

C4_Witness ==
    /\ reading = 70
    /\ math = 70
    /\ focus = 70
    /\ udf_result = Some("Light Touch: General Support")

\* C5: (65, 75, 55) gives weak areas [Reading, Focus], average 65, tier
\* Moderate and the label "Moderate: Reading, Focus".
C5_Example ==
    (udf_result # None /\ reading = 65 /\ math = 75 /\ focus = 55) =>
        /\ LabelAreas(Label) = <<"Reading", "Focus">>
        /\ FormatAvg(reading + math + focus) = "65.0"
        /\ LabelTier(Label) = "Moderate"
        /\ Label = "Moderate: Reading, Focus"

C5_Witness ==
    /\ udf_result # None
    /\ reading = 65
    /\ math = 75
    /\ focus = 55

\* C6: (40, 35, 45) gives average 40, tier Intensive, weak areas
\* [Reading, Math, Focus] and the label "Intensive: Reading, Math, Focus".
C6_Example ==
    (udf_result # None /\ reading = 40 /\ math = 35 /\ focus = 45) =>
        /\ FormatAvg(reading + math + focus) = "40.0"
        /\ LabelTier(Label) = "Intensive"
        /\ LabelAreas(Label) = <<"Reading", "Math", "Focus">>
        /\ Label = "Intensive: Reading, Math, Focus"

C6_Witness ==
    /\ udf_result # None
    /\ reading = 40
    /\ math = 35
    /\ focus = 45

\* C7: there is no bounds enforcement: a call with a score below 0 or above
\* 100 returns a label, never an error, and the label follows the same
\* thresholds as for scores in range.
C7_NoBoundsEnforcement ==
    (udf_result # None /\ \E a \in Range(AreaOrder) : ScoreOf(a) \notin 0..100)
        => /\ Find(Label, ": ") > 0
           /\ LabelTier(Label) \in Tiers
           /\ LabelTier(Label) = TierOfAverage(AvgFloor)
           /\ \A a \in Range(AreaOrder) :
                 a \in Range(LabelAreas(Label)) <=> ScoreOf(a) < 70

\* a call with a negative and an above-range score has returned
C7_Witness ==
    /\ udf_result # None
    /\ reading = -10
    /\ math = 120
    /\ focus = 40
    /\ Label = "Moderate: Reading, Focus"

-----------------------------------------------------------------------------
(* Claims about the generators, under Spec.                                *)

PerRecordLogEvents ==
    {"categorization_started", "categorization_complete", "family_processed"}

PerRecordTraceEvents == {"categorization_complete", "family_processed"}

\* the per-record rows of each sequence, in list order
PerRecordLogs == SelectSeq(logs_df, LAMBDA e : EventOf(e.message) \in PerRecordLogEvents)

PerRecordTraces == SelectSeq(traces_df, LAMBDA e : e.event_name \in PerRecordTraceEvents)

PerRecordSpans == SelectSeq(spans_df, LAMBDA e : e.function_name = "CATEGORIZE_SUPPORT_LEVEL")

\* C9 as stated: on an empty record sequence each of the log, trace and span
\* sequences holds exactly two events, batch start and batch complete.
C9_Original ==
    (families_processed /\ families_df = <<>>) =>
        /\ Len(logs_df) = 2
        /\ Len(traces_df) = 2
        /\ Len(spans_df) = 2

\* C9, amended: on an empty record sequence the trace and span sequences
\* hold exactly their batch-start and batch-complete events, and the log
\* sequence holds exactly three: batch_started, records_found with count 0,
\* batch_complete; no sequence holds a per-record event.
C9_EmptyInput ==
    (families_processed /\ families_df = <<>>) =>
        /\ Len(logs_df) = 3
        /\ EventOf(logs_df[1].message) = "batch_started"
        /\ logs_df[2].message = "{\"event\": \"records_found\", \"count\": 0}"
        /\ EventOf(logs_df[3].message) = "batch_complete"
        /\ Len(traces_df) = 2
        /\ traces_df[1].event_name = "batch_processing_started"
        /\ traces_df[2].event_name = "batch_processing_complete"
        /\ Len(spans_df) = 2
        /\ Contains(spans_df[1].custom_attributes, "\"batch.status\": \"started\"")
        /\ Contains(spans_df[2].custom_attributes, "\"batch.status\": \"completed\"")
        /\ PerRecordLogs = <<>>
        /\ PerRecordTraces = <<>>
        /\ PerRecordSpans = <<>>

\* the telemetry of a run over no records is on display
C9_Witness ==
    /\ families_processed
    /\ families_df = <<>>
    /\ Len(logs_df) = 3
    /\ Len(traces_df) = 2
    /\ Len(spans_df) = 2

\* C10 as stated: N records give 3N per-record log events, 2N per-record
\* trace events and 2N per-record span events.
C10_Original ==
    families_processed =>
        /\ Len(PerRecordLogs) = 3 * Len(families_df)
        /\ Len(PerRecordTraces) = 2 * Len(families_df)
        /\ Len(PerRecordSpans) = 2 * Len(families_df)

\* C10, amended: N records give, in input order, N triplets in the log
\* sequence (3N events), N pairs in the trace sequence (2N events) and N
\* single events in the span sequence (N events).
C10_PerRecordCounts ==
    families_processed =>
        LET N == Len(families_df)
        IN  /\ Len(PerRecordLogs) = 3 * N
            /\ Len(PerRecordTraces) = 2 * N
            /\ Len(PerRecordSpans) = N
            /\ \A i \in 1..N :
                 LET row == families_df[i]
                     id == "\"family_id\": " \o Str(row.family_id) \o ","
                 IN  /\ EventOf(PerRecordLogs[3 * i - 2].message) = "categorization_started"
                     /\ Contains(PerRecordLogs[3 * i - 2].message,
                                 "\"reading\": " \o Str(row.reading_score) \o ",")
                     /\ Contains(PerRecordLogs[3 * i - 2].message,
                                 "\"focus\": " \o Str(row.focus_score) \o "}")
                     /\ EventOf(PerRecordLogs[3 * i - 1].message) = "categorization_complete"
                     /\ EventOf(PerRecordLogs[3 * i].message) = "family_processed"
                     /\ Contains(PerRecordLogs[3 * i].message, id)
                     /\ PerRecordTraces[2 * i - 1].event_name = "categorization_complete"
                     /\ PerRecordTraces[2 * i].event_name = "family_processed"
                     /\ Contains(PerRecordTraces[2 * i].event_details, id)
                     /\ Contains(PerRecordSpans[i].custom_attributes,
                                 "\"input.reading_score\": "
                                 \o Str(row.reading_score) \o ",")
                     /\ Contains(PerRecordSpans[i].custom_attributes,
                                 "\"input.math_score\": "
                                 \o Str(row.math_score) \o ",")

\* the telemetry of a run over three records is on display
C10_Witness ==
    /\ families_processed
    /\ Len(families_df) = 3
    /\ Len(PerRecordLogs) = 9
    /\ Len(PerRecordTraces) = 6
    /\ Len(PerRecordSpans) = 3

\* the positions of the per-record rows in each sequence
PerRecordLogAt == {i \in 1..Len(logs_df) : EventOf(logs_df[i].message) \in PerRecordLogEvents}

PerRecordTraceAt == {i \in 1..Len(traces_df) : traces_df[i].event_name \in PerRecordTraceEvents}

PerRecordSpanAt == {i \in 1..Len(spans_df) : spans_df[i].function_name = "CATEGORIZE_SUPPORT_LEVEL"}

\* the batch-start and batch-complete rows of each sequence
IsBatchStartLog(e) == EventOf(e.message) = "batch_started"

IsBatchCompleteLog(e) == EventOf(e.message) = "batch_complete"

IsBatchStartTrace(e) == e.event_name = "batch_processing_started"

IsBatchCompleteTrace(e) == e.event_name = "batch_processing_complete"

IsBatchStartSpan(e) == Contains(e.custom_attributes, "\"batch.status\": \"started\"")

IsBatchCompleteSpan(e) == Contains(e.custom_attributes, "\"batch.status\": \"completed\"")

\* C11 as stated: in each of the log, trace and span sequences no per-record
\* event is stamped later than the batch-complete event or earlier than the
\* batch-start event, for every number of records.
C11_Original ==
    families_processed =>
        /\ \A e \in Range(PerRecordLogs), b \in Range(logs_df) :
              /\ IsBatchCompleteLog(b) => e.timestamp <= b.timestamp
              /\ IsBatchStartLog(b) => b.timestamp <= e.timestamp
        /\ \A e \in Range(PerRecordTraces), b \in Range(traces_df) :
              /\ IsBatchCompleteTrace(b) => e.timestamp <= b.timestamp
              /\ IsBatchStartTrace(b) => b.timestamp <= e.timestamp
        /\ \A e \in Range(PerRecordSpans), b \in Range(spans_df) :
              /\ IsBatchCompleteSpan(b) => e.timestamp <= b.timestamp
              /\ IsBatchStartSpan(b) => b.timestamp <= e.timestamp

\* C12: in each of the log, trace and span sequences the batch-start row is
\* the first element, the batch-complete row is the last, and every
\* per-record row lies strictly between them.
C12_BracketPositions ==
    families_processed =>
        /\ IsBatchStartLog(logs_df[1])
        /\ IsBatchCompleteLog(logs_df[Len(logs_df)])
        /\ \A i \in PerRecordLogAt : 1 < i /\ i < Len(logs_df)
        /\ IsBatchStartTrace(traces_df[1])
        /\ IsBatchCompleteTrace(traces_df[Len(traces_df)])
        /\ \A i \in PerRecordTraceAt : 1 < i /\ i < Len(traces_df)
        /\ IsBatchStartSpan(spans_df[1])
        /\ IsBatchCompleteSpan(spans_df[Len(spans_df)])
        /\ \A i \in PerRecordSpanAt : 1 < i /\ i < Len(spans_df)

\* the telemetry of a run over two records is on display
C12_Witness ==
    /\ families_processed
    /\ Len(families_df) = 2
    /\ PerRecordLogAt = 3..8
    /\ PerRecordTraceAt = 2..5
    /\ PerRecordSpanAt = 2..3

\* the start time of a sequence: the timestamp of its batch-start row
StartOf(seq) == seq[1].timestamp

\* C13: the per-record events of the record at 0-based position i are
\* anchored at start + 2i + 2 seconds: the log rows categorization_started,
\* categorization_complete, family_processed at +0, +0.5 and +1 s, the trace
\* rows categorization_complete and family_processed at +0.5 and +1 s, the
\* span row at +0 s.
C13_Anchors ==
    families_processed =>
        \A k \in 1..Len(families_df) :
            LET i == k - 1
                anchor == (2 * i + 2) * 1000
            IN  /\ EventOf(PerRecordLogs[3 * k - 2].message) = "categorization_started"
                /\ PerRecordLogs[3 * k - 2].timestamp = StartOf(logs_df) + anchor
                /\ EventOf(PerRecordLogs[3 * k - 1].message) = "categorization_complete"
                /\ PerRecordLogs[3 * k - 1].timestamp = StartOf(logs_df) + anchor + 500
                /\ EventOf(PerRecordLogs[3 * k].message) = "family_processed"
                /\ PerRecordLogs[3 * k].timestamp = StartOf(logs_df) + anchor + 1000
                /\ PerRecordTraces[2 * k - 1].event_name = "categorization_complete"
                /\ PerRecordTraces[2 * k - 1].timestamp = StartOf(traces_df) + anchor + 500
                /\ PerRecordTraces[2 * k].event_name = "family_processed"
                /\ PerRecordTraces[2 * k].timestamp = StartOf(traces_df) + anchor + 1000
                /\ PerRecordSpans[k].timestamp = StartOf(spans_df) + anchor

\* the third record's span row sits 6 s after the start
C13_Witness ==
    /\ families_processed
    /\ Len(families_df) >= 3
    /\ PerRecordSpans[3].timestamp = StartOf(spans_df) + 6000
    /\ PerRecordLogs[9].timestamp = StartOf(logs_df) + 7000

StrictlyIncreasing(seq) ==
    \A i \in 1..(Len(seq) - 1) : seq[i].timestamp < seq[i + 1].timestamp

\* C14: in each of the log, trace and span sequences the per-record events,
\* in list order, carry strictly increasing timestamps.
C14_StrictlyIncreasing ==
    families_processed =>
        /\ StrictlyIncreasing(PerRecordLogs)
        /\ StrictlyIncreasing(PerRecordTraces)
        /\ StrictlyIncreasing(PerRecordSpans)

\* the telemetry of a run over the longest record sequence is on display
C14_Witness ==
    /\ families_processed
    /\ Len(families_df) = MaxFamilies
    /\ Len(PerRecordLogs) = 3 * MaxFamilies
    /\ PerRecordLogs[3].timestamp < PerRecordLogs[4].timestamp

\* the text of s between the first occurrence of key and the next stop
ValueAfter(s, key, stop) ==
    LET rest == SubSeq(s, Find(s, key) + Len(key), Len(s))
    IN  SubSeq(rest, 1, Find(rest, stop) - 1)

\* C15: for every record, the trace categorization_complete row carries the
\* classifier's tier as level and the number of the classifier's weak areas
\* as areas_count, and the trace family_processed category and the span
\* output.result are the classifier's full label for that record's scores.
C15_EmbedsClassifier ==
    families_processed =>
        \A k \in 1..Len(families_df) :
            LET row == families_df[k]
                label == categorize_support_level(row.reading_score,
                                                  row.math_score, row.focus_score)
                done == PerRecordTraces[2 * k - 1].event_details
                processed == PerRecordTraces[2 * k].event_details
                span == PerRecordSpans[k].custom_attributes
            IN  /\ Contains(done, "\"level\": \"")
                /\ ValueAfter(done, "\"level\": \"", "\"") = LabelTier(label)
                /\ ValueAfter(done, "\"areas_count\": ", ",")
                      = Str(Len(LabelAreas(label)))
                /\ ValueAfter(processed, "\"category\": \"", "\"") = label
                /\ ValueAfter(span, "\"output.result\": \"", "\"") = label

\* a record with a score of exactly 70 and one weak area has been traced
C15_Witness ==
    /\ families_processed
    /\ \E k \in 1..Len(families_df) :
          /\ families_df[k].reading_score = 70
          /\ families_df[k].math_score = 65
          /\ ValueAfter(PerRecordTraces[2 * k - 1].event_details,
                        "\"areas_count\": ", ",") = "1"
          /\ ValueAfter(PerRecordTraces[2 * k - 1].event_details,
                        "\"level\": \"", "\"") = "Moderate"

-----------------------------------------------------------------------------
(* Claims about generate_mock_metrics and about runs, under Spec.          *)

\* C16: whatever the record set, the metric sequence is 10 samples of
\* CATEGORIZE_SUPPORT_LEVEL at 1.5 i seconds (i = 0..9) followed by 5 samples
\* of PROCESS_FAMILY_INTAKES at 3 i seconds (i = 0..4), each sample a
\* process.cpu.utilization row directly followed by a process.memory.usage
\* row with the same timestamp: 30 rows.
C16_MetricStructure ==
    families_processed =>
        /\ Len(metrics_df) = 30
        /\ \A s \in 1..15 :
              LET cpu == metrics_df[2 * s - 1]
                  mem == metrics_df[2 * s]
                  fn == IF s <= 10 THEN "CATEGORIZE_SUPPORT_LEVEL"
                        ELSE "PROCESS_FAMILY_INTAKES"
                  offset == IF s <= 10 THEN 1500 * (s - 1) ELSE 3000 * (s - 11)
              IN  /\ cpu.metric_name = "process.cpu.utilization"
                  /\ mem.metric_name = "process.memory.usage"
                  /\ cpu.function_name = fn
                  /\ mem.function_name = fn
                  /\ cpu.timestamp = StartOf(metrics_df) + offset
                  /\ mem.timestamp = cpu.timestamp

\* the metrics of a run over no records are on display
C16_Witness ==
    /\ families_processed
    /\ families_df = <<>>
    /\ Len(metrics_df) = 30
    /\ metrics_df[30].timestamp = StartOf(metrics_df) + 12000

\* a sequence with its timestamps taken relative to its start
Relative(seq) ==
    [i \in 1..Len(seq) |-> [seq[i] EXCEPT !.timestamp = @ - StartOf(seq)]]

\* a metric sequence without its sample values, relative to its start
MetricShape(seq) ==
    [i \in 1..Len(seq) |->
        [offset |-> seq[i].timestamp - StartOf(seq),
         function_name |-> seq[i].function_name,
         metric_name |-> seq[i].metric_name]]

\* C17: two runs of the generators over the same record sequence give log,
\* trace and span sequences equal in count, kinds, order, payloads and
\* offsets from the start, and metric sequences equal in count, names and
\* offsets; only the start time and the metric sample values may differ.
\* (A script run that follows a script run regenerates all four sequences
\* from a fresh clock value and random source.)
C17_SameStructure ==
    [][(families_processed /\ families_processed' /\ families_df' = families_df)
          => /\ Relative(logs_df') = Relative(logs_df)
             /\ Relative(traces_df') = Relative(traces_df)
             /\ Relative(spans_df') = Relative(spans_df)
             /\ MetricShape(metrics_df') = MetricShape(metrics_df)]_vars

\* a second run has regenerated the telemetry at another start time and with
\* other sample values than the first clock value and random source give
C17_Witness ==
    /\ families_processed
    /\ udf_result # None
    /\ Len(families_df) >= 2
    /\ StartOf(logs_df) = BaseTime(7)
    /\ metrics_df[1].metric_value # Draw(0, 0, 50, 250)

\* all four telemetry tabs show the warning and hold no generated rows
Warned ==
    /\ tab_warning = TelemetryTabs
    /\ logs_df = <<>>
    /\ traces_df = <<>>
    /\ spans_df = <<>>
    /\ metrics_df = <<>>

\* all four telemetry tabs show generated rows
Shown ==
    /\ tab_warning = {}
    /\ logs_df # <<>>
    /\ traces_df # <<>>
    /\ spans_df # <<>>
    /\ metrics_df # <<>>

\* C18: telemetry is generated and shown only after a completed Run Procedure
\* with no Reset Demo since: in every state the tabs are all warned or all
\* shown according to families_processed (warned initially), a step that
\* brings telemetry up is a completed run, and a step that clears the session
\* values leaves all four tabs warned.
C18_TelemetryOnlyAfterRun ==
    /\ [](IF families_processed THEN Shown ELSE Warned)
    /\ [][(~Shown /\ Shown')
             => (~families_processed /\ families_processed'
                   /\ processing_time' # None)]_vars
    /\ [][(~families_processed' /\ processing_time' = None) => Warned']_vars

\* a Reset Demo has happened after the tester was used: the sliders are off
\* their defaults, the result is gone, and the tabs are warned
C18_Witness ==
    /\ ~families_processed
    /\ udf_result = None
    /\ reading # 65
    /\ Warned

\* a step of a completed Run Procedure, and a step of Reset Demo, by what
\* they do to the session values
RunStep ==
    /\ ~families_processed
    /\ families_processed'
    /\ processing_time' # None
    /\ udf_result' = None

ResetStep ==
    /\ ~families_processed'
    /\ processing_time' = None
    /\ udf_result' = None

\* C19: calls of the classifier and of the generators leave the record set
\* and the session values families_processed and processing_time as they
\* were: no step changes the record set, a step that shows a tester result
\* or regenerates telemetry keeps both session values, and a step that
\* changes a session value is a Run Procedure or a Reset Demo.
C19_Frame ==
    [][/\ families_df' = families_df
       /\ \A i \in 1..Len(display_df') : display_df'[i].family = families_df[i]
       /\ (udf_result' # None)
             => UNCHANGED <<families_processed, processing_time>>
       /\ (Shown /\ Shown')
             => UNCHANGED <<families_processed, processing_time>>
       /\ (<<families_processed, processing_time>>'
              # <<families_processed, processing_time>>)
             => (RunStep \/ ResetStep)]_vars

\* the tester has been used after a run: the run's session values stand
C19_Witness ==
    /\ families_processed
    /\ processing_time # None
    /\ udf_result # None
    /\ Shown
    /\ Len(families_df) >= 1


\* every form a session can submit without a Student ID or without a Name
EmptySubmits(s) ==
    {in \in FormInputs(students[s]) : in.new_id = "" \/ in.new_name = ""}

\* C20: a submit with an empty Student ID or an empty Name shows the error
\* "Student ID and Name are required!" and leaves the table and the
\* session's student list as they were, whatever the other fields hold and
\* whichever student is selected, and a session that shows the error has
\* its page and its list as before
C20_EmptyRejected ==
    \A s \in Sessions :
        /\ view[s] = "table" =>
              \A in \in EmptySubmits(s) :
                  LET out == Submitted(table, students[s], in)
                  IN  /\ out.error
                      /\ out.table = table
                      /\ out.students = students[s]
        /\ form_error[s] => view[s] = "table" /\ students[s] # None

\* session a shows the error after a save of its own has put a fourth row
\* in the table, and can submit without a Student ID or a Name again
C20_Witness ==
    /\ form_error["a"]
    /\ table # None
    /\ Len(load_data(table)) = 4
    /\ students["a"] = table
    /\ EmptySubmits("a") # {}


\* every form a session can submit with a Student ID and a Name
ValidSubmits(s) ==
    {in \in FormInputs(students[s]) : in.new_id # "" /\ in.new_name # ""}

\* the positions of the rows of df a save with this selection keeps
KeptPositions(df, selected) ==
    {i \in 1..Len(df) : selected = NewStudent \/ df[i].STUDENT_ID # selected}

\* the k-th smallest of a set of positions
KthPosition(positions, k) ==
    CHOOSE i \in positions : Cardinality({j \in positions : j <= i}) = k

\* C21: a successful save replaces the table with the session's previous
\* rows, without every row of the selected student when editing, in their
\* order and with their content, followed by the submitted row; a
\* new-student save makes that one row more than the session had; the
\* session's list is the table afterwards, and a session working alone on
\* an existing table always holds the table's rows
C21_SaveReplaces ==
    \A s \in Alone :
        view[s] = "table" =>
            /\ students[s] = table
            /\ \A in \in ValidSubmits(s) :
                  LET out == Submitted(table, students[s], in)
                      prev == students[s][1]
                      new == load_data(out.table)
                      kept == KeptPositions(prev, in.selected)
                  IN  /\ ~out.error
                      /\ Len(new) = Cardinality(kept) + 1
                      /\ new[Len(new)] =
                             Student(in.new_id, in.new_name, in.new_support,
                                     in.new_status, in.new_notes, in.day)
                      /\ \A k \in 1..Cardinality(kept) :
                             new[k] = prev[KthPosition(kept, k)]
                      /\ in.selected = NewStudent => Len(new) = Len(prev) + 1
                      /\ out.students = out.table

\* after saves of session a the table holds two rows with the ID S001
\* followed by a row saved last, so that an edit of S001 drops two rows that
\* are not next to the end
C21_Witness ==
    /\ view["a"] = "table"
    /\ ~form_error["a"]
    /\ students["a"] = table
    /\ Len(load_data(table)) = 4
    /\ Cardinality({i \in 1..4 : load_data(table)[i].STUDENT_ID = "S001"}) = 2
    /\ load_data(table)[4].STUDENT_ID = "S004"
    /\ load_data(table)[4].NAME = "Taylor Smith"


\* C24: in one session, whatever is created and saved, no two rows of the
\* table share a STUDENT_ID.  The handler never compares the submitted ID
\* with the IDs the list holds, so this does not hold: see the entry of C24.
C24_Original ==
    table # None =>
        \A i, j \in 1..Len(load_data(table)) :
            i # j => load_data(table)[i].STUDENT_ID # load_data(table)[j].STUDENT_ID

\* the saver of a step that overwrote the table with its list, and an entry
\* of its selectbox such that every row of the table before the step that is
\* not of the selected student is still in the table after it
KeepsOtherRows(t) ==
    /\ view[t] = "table"
    /\ students'[t] = table'
    /\ \E selected \in student_ids(students[t]) :
          \A i \in 1..Len(load_data(table)) :
              load_data(table)[i].STUDENT_ID # selected =>
                  \E j \in 1..Len(load_data(table')) :
                      load_data(table')[j] = load_data(table)[i]

\* C25: with two sessions, a save that overwrites the table keeps every row
\* the table held, written there by the other session's save, unless it is a
\* row of the student the saver edits.  A session saves its own list, loaded
\* once, so this does not hold: see the entry of C25.
C25_Original ==
    [][(table # None /\ table' # table) =>
          \E t \in Sessions : KeepsOtherRows(t)]_vars


\* C26: in every reachable state families_processed is true exactly when
\* processing_time is set: both are unset at the start and after a Reset
\* Demo, both are set after a completed Run Procedure (a run over no
\* records records a time of zero, which is set)
C26_ProcessedIffTimed ==
    families_processed <=> (processing_time # None)

\* a run over no records has completed: the time it recorded is zero
C26_Witness ==
    /\ families_processed
    /\ families_df = <<>>
    /\ processing_time = Some(0)


\* a Reset Demo step that clears a tester result, seen from a state in which
\* no run has completed
ResetWithoutRun ==
    /\ ~families_processed
    /\ ~families_processed'
    /\ udf_result # None
    /\ udf_result' = None

\* C27 as stated: no run is offered once one has completed, and from the
\* first run on runs and resets strictly alternate, so that no reset happens
\* unless a run has completed since the last one
C27_Original ==
    /\ [](families_processed => ~ENABLED RunProcedure)
    /\ [][ever_run => ~ResetWithoutRun]_vars

\* C27: Run Procedure is enabled exactly while families_processed is False,
\* so that between two completed runs there is a Reset Demo: while
\* families_processed stays true the recorded time stays as the run left it.
\* Reset Demo is enabled in every state, after a run or not.
C27_RunOnlyWhenUnprocessed ==
    /\ [](ENABLED RunProcedure <=> ~families_processed)
    /\ [](ENABLED ResetDemo)
    /\ [][(families_processed /\ families_processed')
             => processing_time' = processing_time]_vars

\* a run has completed and a reset has followed it; the tester has been
\* used since, and both a second run and a second reset are offered
C27_Witness ==
    /\ ever_run
    /\ ~families_processed
    /\ udf_result # None
    /\ ENABLED RunProcedure
    /\ ENABLED ResetDemo


\* C22: a submit of the donation form with a name inserts exactly one row,
\* that name with that amount and the current date, after the rows the
\* table holds, and a submit without a name shows "Please enter a donor
\* name" and inserts nothing.  The name is pasted into the statement between
\* quotes as typed, so this does not hold for a name with an apostrophe:
\* see the entry of C22.
C22_Original ==
    donations # None =>
        \A donor_name \in DonorNameSample, amount \in AmountSample,
           day \in DaySample :
            LET out == donation_form(donations, donor_name, amount, day)
            IN  IF donor_name # ""
                THEN out.table = Some(load_data(donations)
                                      \o <<Donation(donor_name, amount, day)>>)
                ELSE /\ out.notice = "Please enter a donor name"
                     /\ out.table = donations

\* the same for the names typed without a quote: this holds
PlainNamesInsertOneRow ==
    donations # None =>
        \A donor_name \in DonorNameSample \ {"O'Brien", "x', 5.0, CURRENT_DATE()), ('y"},
           amount \in AmountSample, day \in DaySample :
            LET out == donation_form(donations, donor_name, amount, day)
            IN  IF donor_name # ""
                THEN out.table = Some(load_data(donations)
                                      \o <<Donation(donor_name, amount, day)>>)
                ELSE /\ out.notice = "Please enter a donor name"
                     /\ out.table = donations


\* a name with an apostrophe has been submitted and the statement did not
\* compile
ApostropheRaises ==
    /\ donation_notice = "SnowparkSQLException"
    /\ donations = create_setup(1)

\* the name that closes the string constant itself has been submitted on the
\* seed rows: two rows were inserted
InjectedRows ==
    /\ donations # None
    /\ Len(load_data(donations)) = 5
    /\ load_data(donations)[4] = Donation("x", 500, 1)
    /\ load_data(donations)[5].DONOR_NAME = "y"


\* the positions of the members that pass the two filters as selected
Matching ==
    {i \in 1..Len(members_df) :
        /\ table_type = "All" \/ members_df[i].MEMBER_TYPE = table_type
        /\ table_region = "All" \/ members_df[i].REGION = table_region}

\* C23: the filterable table shows exactly the first top_n, in the loaded
\* order, of the members whose type is the selected type and whose region is
\* the selected region, "All" switching a filter off; it never shows more
\* than top_n rows nor more than there are members
C23_FilteredTopN ==
    LET shown == IF Cardinality(Matching) <= table_limit
                 THEN Cardinality(Matching) ELSE table_limit
    IN  /\ Len(member_table) = shown
        /\ \A k \in 1..shown :
               member_table[k] = DisplayMember(members_df[KthPosition(Matching, k)])
        /\ Len(member_table) <= table_limit
        /\ Len(member_table) <= Len(members_df)

\* a type is selected that eleven members have, the region filter is off,
\* and the table stops at the ten it is to show
C23_Witness ==
    /\ table_type = "Parent"
    /\ table_region = "All"
    /\ table_limit = 10
    /\ Cardinality(Matching) = 11
    /\ Len(member_table) = 10
    /\ member_table[5].Name = "Member 6"

=============================================================================
